---------------------------- MODULE Spec2Model ----------------------------
(***************************************************************************)
(* csvglicko: rate_file (src/src/main.rs) folds the game records of a CSV  *)
(* file into a table of Glicko-2 ratings by calling glicko2                *)
(* (src/src/local_glicko2.rs) once per record.                             *)
(*                                                                         *)
(* The program computes in f64.  The model computes in a binary floating   *)
(* point format of the same shape (sign, significand, exponent, signed     *)
(* zeros, subnormals, infinities, NaN, round to nearest even, the exponent *)
(* range of binary64) whose significand has Precision bits instead of 53.  *)
(* A value is a record [k, s, m, e]: k = "fin" stands for                  *)
(* (-1)^s * m * 2^e, k = "inf" for an infinity of sign s, k = "nan" for    *)
(* NaN.                                                                    *)
(***************************************************************************)
EXTENDS Integers, Sequences, FiniteSets, TLC

\* Width of the significand, in bits (53 in binary64).
Precision == 8

\* Largest and smallest normal binary exponent of binary64.
MaxExp == 1023
MinExp == -1022

\* Exponent of the last place of the smallest and of the largest values.
EMin == MinExp - Precision + 1
EMax == MaxExp - Precision + 1

Pow2(n) == 2 ^ n

RECURSIVE BitLen(_)
BitLen(n) == IF n = 0 THEN 0 ELSE 1 + BitLen(n \div 2)

AbsInt(n) == IF n < 0 THEN -n ELSE n

MaxInt(a, b) == IF a >= b THEN a ELSE b

NaN == [k |-> "nan", s |-> 0, m |-> 0, e |-> 0]

Inf(s) == [k |-> "inf", s |-> s, m |-> 0, e |-> 0]

Zero(s) == [k |-> "fin", s |-> s, m |-> 0, e |-> EMin]

Fin(s, m, e) == [k |-> "fin", s |-> s, m |-> m, e |-> e]

IsNaN(x) == x.k = "nan"

IsInf(x) == x.k = "inf"

IsZero(x) == x.k = "fin" /\ x.m = 0

XorSign(x, y) == (x.s + y.s) % 2

\* (-1)^s * (M + sticky * epsilon) * 2^E rounded to the format: to nearest,
\* ties to even, gradual underflow, overflow to infinity.
RoundSticky(s, M, E, sticky) ==
    LET Nearest(q, r, half) ==
            IF r > half \/ (r = half /\ (sticky = 1 \/ q % 2 = 1)) THEN q + 1 ELSE q
        Shifted(sh) ==
            IF sh <= 0 THEN M * Pow2(-sh)
            ELSE IF sh > BitLen(M) + 1 THEN 0
            ELSE Nearest(M \div Pow2(sh), M % Pow2(sh), Pow2(sh - 1))
        Pack(m, e) ==
            IF m = 0 THEN Zero(s)
            ELSE IF m = Pow2(Precision)
                 THEN (IF e + 1 > EMax THEN Inf(s) ELSE Fin(s, Pow2(Precision - 1), e + 1))
            ELSE IF e > EMax THEN Inf(s)
            ELSE Fin(s, m, e)
        At(e) == Pack(Shifted(e - E), e)
    IN  IF M = 0 THEN Zero(s)
        ELSE At(MaxInt(EMin, E + BitLen(M) - Precision))

Round(s, M, E) == RoundSticky(s, M, E, 0)

\* A nonzero significand shifted left to exactly Precision bits.
NormM(x) == x.m * Pow2(Precision - BitLen(x.m))

NormE(x) == x.e - (Precision - BitLen(x.m))

FNeg(x) == IF IsNaN(x) THEN x ELSE [x EXCEPT !.s = 1 - x.s]

FAbs(x) == IF IsNaN(x) THEN x ELSE [x EXCEPT !.s = 0]

FMul(x, y) ==
    IF IsNaN(x) \/ IsNaN(y) THEN NaN
    ELSE IF IsInf(x) \/ IsInf(y)
         THEN IF IsZero(x) \/ IsZero(y) THEN NaN ELSE Inf(XorSign(x, y))
    ELSE Round(XorSign(x, y), x.m * y.m, x.e + y.e)

FDiv(x, y) ==
    LET Quotient(num, den) ==
            Round(XorSign(x, y),
                  2 * (num \div den) + (IF num % den # 0 THEN 1 ELSE 0),
                  NormE(x) - NormE(y) - (Precision + 2) - 1)
    IN  IF IsNaN(x) \/ IsNaN(y) THEN NaN
        ELSE IF IsInf(x) THEN (IF IsInf(y) THEN NaN ELSE Inf(XorSign(x, y)))
        ELSE IF IsInf(y) THEN Zero(XorSign(x, y))
        ELSE IF IsZero(y) THEN (IF IsZero(x) THEN NaN ELSE Inf(XorSign(x, y)))
        ELSE IF IsZero(x) THEN Zero(XorSign(x, y))
        ELSE Quotient(NormM(x) * Pow2(Precision + 2), NormM(y))

\* The exact sum of two finite nonzero values, hi the one of larger exponent.
\* An addend that lies wholly below an eighth of hi's last place counts as
\* one sticky unit.
AddOrdered(hi, lo) ==
    LET Signed(s, m) == IF s = 0 THEN m ELSE -m
        Sum(S, E) ==
            IF S = 0 THEN Zero(0)
            ELSE Round(IF S > 0 THEN 0 ELSE 1, AbsInt(S), E)
        Aligned(d) ==
            IF d <= Precision + 2
            THEN Sum(Signed(hi.s, hi.m * Pow2(d)) + Signed(lo.s, lo.m), lo.e)
            ELSE Sum(Signed(hi.s, hi.m * 8) + Signed(lo.s, 1), hi.e - 3)
    IN  Aligned(hi.e - lo.e)

FAdd(x, y) ==
    IF IsNaN(x) \/ IsNaN(y) THEN NaN
    ELSE IF IsInf(x) THEN (IF IsInf(y) /\ x.s # y.s THEN NaN ELSE x)
    ELSE IF IsInf(y) THEN y
    ELSE IF IsZero(x) /\ IsZero(y)
         THEN Zero(IF x.s = 1 /\ y.s = 1 THEN 1 ELSE 0)
    ELSE IF IsZero(x) THEN y
    ELSE IF IsZero(y) THEN x
    ELSE IF x.e >= y.e THEN AddOrdered(x, y) ELSE AddOrdered(y, x)

FSub(x, y) == FAdd(x, FNeg(y))

\* Largest r with r * r <= n, for n < 2^30, found bit by bit from bit b down.
RECURSIVE ISqrtFrom(_, _, _)
ISqrtFrom(n, r, b) ==
    IF b = 0 THEN r
    ELSE ISqrtFrom(n, IF (r + b) * (r + b) <= n THEN r + b ELSE r, b \div 2)

ISqrt(n) == ISqrtFrom(n, 0, Pow2(14))

FSqrt(x) ==
    LET Root(M, E, r) ==
            Round(0, 2 * r + (IF r * r # M THEN 1 ELSE 0), (E \div 2) - 1)
        Of(M, E) == Root(M, E, ISqrt(M))
        Shifted(sh) == Of(NormM(x) * Pow2(sh), NormE(x) - sh)
    IN  IF IsNaN(x) THEN NaN
        ELSE IF IsZero(x) THEN x
        ELSE IF x.s = 1 THEN NaN
        ELSE IF IsInf(x) THEN x
        ELSE Shifted(IF (NormE(x) - (Precision + 1)) % 2 = 0
                     THEN Precision + 1 ELSE Precision + 2)

\* -1, 0 or 1: the order of the magnitudes of two finite nonzero values.
MagCmp(x, y) ==
    LET ByTop(tx, ty, mx, my) ==
            IF tx # ty THEN (IF tx > ty THEN 1 ELSE -1)
            ELSE IF mx > my THEN 1
            ELSE IF mx < my THEN -1 ELSE 0
    IN  ByTop(x.e + BitLen(x.m), y.e + BitLen(y.m), NormM(x), NormM(y))

\* The place of a value that is not NaN on the line: -2 and 2 the infinities.
Rank(x) ==
    IF IsInf(x) THEN (IF x.s = 0 THEN 2 ELSE -2)
    ELSE IF IsZero(x) THEN 0
    ELSE IF x.s = 0 THEN 1 ELSE -1

\* -1, 0 or 1: the order of two values that are not NaN.
Cmp(x, y) ==
    LET ByRank(rx, ry) ==
            IF rx # ry THEN (IF rx > ry THEN 1 ELSE -1)
            ELSE IF rx = 1 THEN MagCmp(x, y)
            ELSE IF rx = -1 THEN -MagCmp(x, y)
            ELSE 0
    IN  ByRank(Rank(x), Rank(y))

FLt(x, y) == ~IsNaN(x) /\ ~IsNaN(y) /\ Cmp(x, y) < 0

FLe(x, y) == ~IsNaN(x) /\ ~IsNaN(y) /\ Cmp(x, y) <= 0

FGt(x, y) == FLt(y, x)

\* ------------------------------------------------------------------------
\* exp and ln, computed in fixed point with FracBits fractional bits.

FracBits == 20

OneQ == Pow2(FracBits)

\* ln 2 and sqrt 2 in fixed point: round(ln 2 * 2^20), round(sqrt 2 * 2^20).
Ln2Q == 726817

Sqrt2Q == 1482910

\* (a * b) / 2^20 for 0 <= a, b < 2^21, by halves of 11 and 10 bits.
MulQ(a, b) ==
    LET Halves(ah, al, bh, bl) ==
            ah * bh + ((ah * bl + al * bh + ((al * bl) \div 1024)) \div 1024)
    IN  Halves(a \div 1024, a % 1024, b \div 1024, b % 1024)

\* (num * 2^20) / den for 0 <= num < den < 2^22, in three steps.
DivQ(num, den) ==
    LET Step3(q1, q2, r2) == q1 * 2048 + q2 * 4 + ((r2 * 4) \div den)
        Step2(q1, r1) == Step3(q1, (r1 * 512) \div den, (r1 * 512) % den)
    IN  Step2((num * 512) \div den, (num * 512) % den)

\* The Taylor series of e^r, 0 <= r < ln 2, from term number n on.
RECURSIVE ExpSeries(_, _, _, _)
ExpSeries(r, term, total, n) ==
    LET Add(t) == ExpSeries(r, t, total + t, n + 1)
    IN  IF n > 12 THEN total
        ELSE Add(MulQ(term, r) \div n)

ExpQ(r) == ExpSeries(r, OneQ, OneQ, 1)

\* A finite value of magnitude below 1024 as a signed fixed-point integer.
ToQ(x) ==
    LET Magnitude(sh) ==
            IF x.m = 0 THEN 0
            ELSE IF sh >= 0 THEN x.m * Pow2(sh)
            ELSE IF -sh > 30 THEN 0
            ELSE (x.m + Pow2(-sh - 1)) \div Pow2(-sh)
        Signed(v) == IF x.s = 0 THEN v ELSE -v
    IN  Signed(Magnitude(x.e + FracBits))

One == Round(0, 1, 0)

FExp(x) ==
    LET Scaled(r, k) == RoundSticky(0, ExpQ(r), k - FracBits, 1)
        Reduced(X, k) == Scaled(X - k * Ln2Q, k)
        Of(X) == Reduced(X, X \div Ln2Q)
    IN  IF IsNaN(x) THEN NaN
        ELSE IF IsInf(x) THEN (IF x.s = 0 THEN Inf(0) ELSE Zero(0))
        ELSE IF IsZero(x) THEN One
        ELSE IF x.e + BitLen(x.m) > 10 THEN (IF x.s = 0 THEN Inf(0) ELSE Zero(0))
        ELSE Of(ToQ(x))

\* The series of atanh z from the term z^n / n on; z2 = z * z.
RECURSIVE AtanhSeries(_, _, _, _)
AtanhSeries(z2, term, total, n) ==
    LET Add(t) == AtanhSeries(z2, t, total + (t \div n), n + 2)
    IN  IF n > 15 THEN total
        ELSE Add(MulQ(term, z2))

\* |ln y| for sqrt(1/2) <= y < sqrt 2: 2 * atanh(|y - 1| / (y + 1)).
LnQ(Y) ==
    LET Of(z) == 2 * AtanhSeries(MulQ(z, z), z, z, 3)
    IN  Of(DivQ(AbsInt(Y - OneQ), Y + OneQ))

FLn(x) ==
    LET Signed(T) ==
            IF T = 0 THEN Zero(0)
            ELSE RoundSticky(IF T > 0 THEN 0 ELSE 1, AbsInt(T), -FracBits, 1)
        Sum(Y, E, L) == Signed(E * Ln2Q + (IF Y >= OneQ THEN L ELSE -L))
        Reduced(Y, E) == Sum(Y, E, LnQ(Y))
        Split(bl, Y0) ==
            IF Y0 > Sqrt2Q THEN Reduced(Y0 \div 2, x.e + bl)
            ELSE Reduced(Y0, x.e + bl - 1)
        Of(bl) == Split(bl, x.m * Pow2(FracBits - (bl - 1)))
    IN  IF IsNaN(x) THEN NaN
        ELSE IF IsZero(x) THEN Inf(1)
        ELSE IF x.s = 1 THEN NaN
        ELSE IF IsInf(x) THEN x
        ELSE Of(BitLen(x.m))

FRecip(x) == FDiv(One, x)

FSquare(x) == FMul(x, x)

\* sqrt(x^2 + y^2) with the larger operand's exponent taken out, so that
\* no intermediate result overflows or underflows.
FHypot(x, y) ==
    LET Scaled(r, e) == Round(0, r.m, r.e + e)
        Root(a, b, e) == Scaled(FSqrt(FAdd(FMul(a, a), FMul(b, b))), e)
        Apart(hi, lo, d) ==
            IF d < -4 * Precision THEN FAbs(hi)
            ELSE Root(Fin(0, hi.m, 0), Fin(0, lo.m, d), hi.e)
        Ordered(hi, lo) == Apart(hi, lo, lo.e - hi.e)
    IN  IF IsInf(x) \/ IsInf(y) THEN Inf(0)
        ELSE IF IsNaN(x) \/ IsNaN(y) THEN NaN
        ELSE IF IsZero(x) THEN FAbs(y)
        ELSE IF IsZero(y) THEN FAbs(x)
        ELSE IF MagCmp(x, y) >= 0 THEN Ordered(x, y) ELSE Ordered(y, x)

\* x * y + z rounded once.  p is the exact product; an addend wholly below
\* the other's last place counts as one sticky unit.
FMulAdd(x, y, z) ==
    LET Signed(s, m) == IF s = 0 THEN m ELSE -m
        Sum(S, E) ==
            IF S = 0 THEN Zero(0)
            ELSE Round(IF S > 0 THEN 0 ELSE 1, AbsInt(S), E)
        Aligned(hs, hm, he, ls, lm, le, d) ==
            IF d <= 30 - BitLen(hm)
            THEN Sum(Signed(hs, hm * Pow2(d)) + Signed(ls, lm), le)
            ELSE Sum(Signed(hs, hm * 4) + Signed(ls, 1), he - 2)
        Ordered(hs, hm, he, ls, lm, le) == Aligned(hs, hm, he, ls, lm, le, he - le)
        Product(ps, pm, pe) ==
            IF IsZero(z) THEN Round(ps, pm, pe)
            ELSE IF pe >= z.e THEN Ordered(ps, pm, pe, z.s, z.m, z.e)
            ELSE Ordered(z.s, z.m, z.e, ps, pm, pe)
    IN  IF IsNaN(x) \/ IsNaN(y) \/ IsNaN(z) THEN NaN
        ELSE IF IsInf(x) \/ IsInf(y) \/ IsInf(z) \/ IsZero(x) \/ IsZero(y)
             THEN FAdd(FMul(x, y), z)
        ELSE Product(XorSign(x, y), x.m * y.m, x.e + y.e)

\* ------------------------------------------------------------------------
\* The literals of local_glicko2.rs and the values a CSV cell parses to.

FromInt(n) == Round(IF n >= 0 THEN 0 ELSE 1, AbsInt(n), 0)

FromRatio(n, d) == FDiv(FromInt(n), FromInt(d))

Two == FromInt(2)

Three == FromInt(3)

Half == Fin(0, Pow2(Precision - 1), -Precision)

C1500 == FromInt(1500)

\* 173.7178
Scale == RoundSticky(0, (1737178 * 512) \div 10000, -9, 1)

\* std::f64::consts::PI
Pi == RoundSticky(0, 3294198, -20, 1)

\* str::parse::<f64> on the cells that occur in the model's files.
ParseF64(cell) ==
    CASE cell = "1"   -> [ok |-> TRUE, val |-> One]
      [] cell = "0.5" -> [ok |-> TRUE, val |-> Half]
      [] cell = "2"   -> [ok |-> TRUE, val |-> Two]
      [] OTHER        -> [ok |-> FALSE, val |-> NaN]

\* ------------------------------------------------------------------------
\* local_glicko2.rs

g_value(deviation) ==
    FRecip(FSqrt(FAdd(One, FDiv(FMul(Three, FSquare(deviation)), FSquare(Pi)))))

e_value(rating, opponent_rating, g) ==
    FRecip(FAdd(One, FExp(FMul(FNeg(g), FSub(rating, opponent_rating)))))

v_value(g, e) == FRecip(FMul(FMul(FSquare(g), e), FSub(One, e)))

delta_value(outcome, v, g, e) == FMul(v, FMul(g, FSub(outcome, e)))

f_value(x, delta_square, deviation_square, v, volatility, tau) ==
    LET i(ex) ==
            FDiv(FMul(ex, FSub(FSub(FSub(delta_square, deviation_square), v), ex)),
                 FMul(Two, FSquare(FAdd(FAdd(deviation_square, v), ex))))
        j == FDiv(FSub(x, FLn(FSquare(volatility))), FSquare(tau))
    IN  FSub(i(FExp(x)), j)

new_deviation(deviation, new_vol, v) ==
    LET pre_deviation == FHypot(deviation, new_vol)
    IN  FRecip(FSqrt(FAdd(FRecip(FSquare(pre_deviation)), FRecip(v))))

new_rating(rating, new_dev, outcome, g, e) ==
    FMulAdd(FMul(FSquare(new_dev), g), FSub(outcome, e), rating)

\* let outcome2 = 1.0 - outcome1;
Outcome2Same(outcome1) == outcome1

Outcome2(outcome1) == FSub(One, outcome1)

\* The locals of glicko2 up to its two calls of new_volatility.
Glicko2Locals(player_one, player_two, outcome) ==
    LET Locals(player_one_rating, player_two_rating,
               player_one_deviation, player_two_deviation,
               outcome1, outcome2, g1, g2, e1, e2) ==
            [player_one |-> player_one, player_two |-> player_two,
             rating    |-> <<player_one_rating, player_two_rating>>,
             deviation |-> <<player_one_deviation, player_two_deviation>>,
             outcome   |-> <<outcome1, outcome2>>,
             g |-> <<g1, g2>>, e |-> <<e1, e2>>,
             v |-> <<v_value(g1, e1), v_value(g2, e2)>>]
        WithG(player_one_rating, player_two_rating,
              player_one_deviation, player_two_deviation, g1, g2) ==
            Locals(player_one_rating, player_two_rating,
                   player_one_deviation, player_two_deviation,
                   outcome, Outcome2(outcome), g1, g2,
                   e_value(player_one_rating, player_two_rating, g1),
                   e_value(player_two_rating, player_one_rating, g2))
        Scaled(player_one_rating, player_two_rating,
               player_one_deviation, player_two_deviation) ==
            WithG(player_one_rating, player_two_rating,
                  player_one_deviation, player_two_deviation,
                  g_value(player_two_deviation), g_value(player_one_deviation))
    IN  Scaled(FDiv(FSub(player_one.rating, C1500), Scale),
               FDiv(FSub(player_two.rating, C1500), Scale),
               FDiv(player_one.deviation, Scale),
               FDiv(player_two.deviation, Scale))

\* The arguments of the call of new_volatility for side i.
NvArgs(c, i) ==
    [old_volatility    |-> IF i = 1 THEN c.player_one.volatility
                           ELSE c.player_two.volatility,
     delta_squared     |-> FSquare(delta_value(c.outcome[i], c.v[i], c.g[i], c.e[i])),
     deviation_squared |-> FSquare(c.deviation[i]),
     v                 |-> c.v[i]]

\* f_value at x with the arguments of one call of new_volatility.
FAt(x, arg, tau) ==
    f_value(x, arg.delta_squared, arg.deviation_squared, arg.v,
            arg.old_volatility, tau)

\* let mut a = old_volatility.powi(2).ln();
StartA(arg) == FLn(FSquare(arg.old_volatility))

\* if delta_squared > deviation_squared + v
BracketIsDirect(arg) ==
    FGt(arg.delta_squared, FAdd(arg.deviation_squared, arg.v))

\* (delta_squared - deviation_squared - v).ln()
DirectB(arg) ==
    FLn(FSub(FSub(arg.delta_squared, arg.deviation_squared), arg.v))

\* a - k * tau
SearchPoint(a, k, tau) == FSub(a, FMul(k, tau))

\* let c = a + ((a - b) * fa / (fb - fa));
SecantPoint(r) ==
    FAdd(r.a, FDiv(FMul(FSub(r.a, r.b), r.fa), FSub(r.fb, r.fa)))

\* if fc * fb <= 0.0
IllinoisMovesAFlipped(fc, fb) == ~FLe(FMul(fc, fb), Zero(0))

IllinoisMovesA(fc, fb) == FLe(FMul(fc, fb), Zero(0))

\* One pass through the body of the refinement loop.
SecantBody(r, arg, tau) ==
    LET Step(c, fc) ==
            IF IllinoisMovesA(fc, r.fb)
            THEN [r EXCEPT !.a = r.b, !.fa = r.fb, !.b = c, !.fb = fc]
            ELSE [r EXCEPT !.fa = FDiv(r.fa, Two), !.b = c, !.fb = fc]
        At(c) == Step(c, FAt(c, arg, tau))
    IN  At(SecantPoint(r))

\* while (b - a).abs() > convergence_tolerance
NotConverged(r, convergence_tolerance) ==
    FGt(FAbs(FSub(r.b, r.a)), convergence_tolerance)

\* What glicko2 returns, given the two new volatilities.
Glicko2Result(c, vols) ==
    LET Side(i, new_dev) ==
            [rating     |-> FMulAdd(new_rating(c.rating[i], new_dev, c.outcome[i],
                                               c.g[i], c.e[i]),
                                    Scale, C1500),
             deviation  |-> FMul(new_dev, Scale),
             volatility |-> vols[i]]
    IN  << Side(1, new_deviation(c.deviation[1], vols[1], c.v[1])),
           Side(2, new_deviation(c.deviation[2], vols[2], c.v[2])) >>

\* ------------------------------------------------------------------------
\* The inputs of a run.

\* Records read from one file, at most.
MaxRecords == 2

Names == {"a", "b", "c"}

OutcomeCells == {"1", "0.5", "2", "x"}

\* What reader.records() can yield: an error (an unreadable row, or a row
\* whose number of cells differs from the rows before it), a row of two
\* cells, a row of three cells.
BadCsv == [err |-> TRUE, fields |-> <<>>]

Row(cells) == [err |-> FALSE, fields |-> cells]

Records ==
    {BadCsv} \cup {Row(<<"a", "b">>), Row(<<"a", "a">>)}
    \cup {Row(<<n1, n2, o>>) : n1 \in Names, n2 \in Names, o \in OutcomeCells}

NoRecord == Row(<<>>)

\* --default-tau and --default-tolerance: the stock tau with a tolerance
\* above the spacing of the format near ln(0.06^2), a tolerance below that
\* spacing, a tau close to zero.
Tolerance == Fin(0, Pow2(Precision - 1), -Precision - 3)

TinyTolerance == Fin(0, Pow2(Precision - 1), -Precision - 29)

TinyTau == Fin(0, Pow2(Precision - 1), -Precision - 39)

StockConfig == [tau |-> Half, convergence_tolerance |-> Tolerance]

Configs ==
    { StockConfig,
      [tau |-> Half, convergence_tolerance |-> TinyTolerance],
      [tau |-> TinyTau, convergence_tolerance |-> Tolerance] }

\* --default-rating, --default-deviation, --default-volatility: the stock
\* 1500 / 350 / 0.06, a volatility so small that products of values of f
\* underflow, and one so small that its own square underflows.
StockVolatility == FromRatio(6, 100)

SmallVolatility == Fin(0, Pow2(Precision - 1), -300 - Precision)

TinyVolatility == Fin(0, Pow2(Precision - 1), -600 - Precision)

DefaultRating(vol) ==
    [rating |-> C1500, deviation |-> FromInt(350), volatility |-> vol]

Defaults ==
    {DefaultRating(vol) : vol \in {StockVolatility, SmallVolatility, TinyVolatility}}

\* The command lines of the model: every default with the stock config,
\* every config with the stock default.
Runs ==
    {r \in [cfg : Configs, dflt : Defaults] :
        r.cfg = StockConfig \/ r.dflt = DefaultRating(StockVolatility)}

\* ------------------------------------------------------------------------
\* The state.

VARIABLES
    cfg,        \* glicko2_config
    dflt,       \* glicko2_default_rating
    players,    \* rate_file's HashMap: name -> Player
    nread,      \* records taken from the reader so far
    rec,        \* the record taken last
    status,     \* "running", "ok" (Ok(players) returned), "err" (Err
                \* returned, main prints and returns), "panic" (unwrap)
    history,    \* the games rated so far, in file order
    pc,         \* "read", "nv" (entering new_volatility), "search",
                \* "search_body", "secant", "secant_body", "ret" (glicko2
                \* returns), "exit"
    call,       \* the locals of the running call of glicko2
    side,       \* which of its two calls of new_volatility runs
    sv,         \* the locals of new_volatility: a, b, fa, fb, k
    nv,         \* the new volatilities computed so far
    trail,      \* the values of sv at which the running loop's test has
                \* already been evaluated
    swap        \* the two calls of glicko2 with the sides exchanged

vars == <<cfg, dflt, players, nread, rec, status, history, pc, call, side, sv, nv,
          trail, swap>>

fileVars == <<players, nread, rec, status, history>>

NoCall == [player_one |-> 0]

NoSv == [a |-> Zero(0), b |-> Zero(0), fa |-> Zero(0), fb |-> Zero(0), k |-> Zero(0)]

NoSwap == [stage |-> 0]

Init ==
    /\ \E r \in Runs : cfg = r.cfg /\ dflt = r.dflt
    /\ players = << >>
    /\ nread = 0
    /\ rec = NoRecord
    /\ status = "running"
    /\ history = << >>
    /\ pc = "read"
    /\ call = NoCall
    /\ side = 1
    /\ sv = NoSv
    /\ nv = << >>
    /\ trail = {}
    /\ swap = NoSwap

\* ------------------------------------------------------------------------
\* rate_file

\* record.get(i), cells counted from 0
HasCell(r, i) == i + 1 <= Len(r.fields)

\* if player_1_name == player_2_name { continue; }
IsSelfPlayNever(r) == FALSE

IsSelfPlay(r) == r.fields[1] = r.fields[2]

\* players.get(name).rating if players.contains_key(name), else the default
LookupDefaultOnly(tbl, name, d) == d

Lookup(tbl, name, d) ==
    IF name \in DOMAIN tbl THEN tbl[name].rating ELSE d

\* players.insert(name, player)
InsertDropsOthers(tbl, name, player) == [n \in {name} |-> player]

Insert(tbl, name, player) ==
    [n \in DOMAIN tbl \cup {name} |-> IF n = name THEN player ELSE tbl[n]]

CanRead == pc = "read" /\ status = "running" /\ swap.stage = 0 /\ nread < MaxRecords

\* csv::Reader is not flexible: a row is a record only if it has as many
\* cells as the rows before it; any other row comes out as an error.
Fits(r) == r.err \/ nread = 0 \/ Len(r.fields) = Len(rec.fields)

Take(r) == Fits(r) /\ rec' = r /\ nread' = nread + 1

\* let record = result?;  on an Err of the reader
ReadBadCsv ==
    /\ CanRead
    /\ \E r \in Records :
        /\ r.err
        /\ Take(r)
    /\ status' = "err"
    /\ pc' = "exit"
    /\ UNCHANGED <<cfg, dflt, players, history, call, side, sv, nv, trail, swap>>

\* record.get(1).unwrap(), record.get(2).unwrap() on a row without the cell
ReadMissingField ==
    /\ CanRead
    /\ \E r \in Records :
        /\ ~r.err
        /\ ~HasCell(r, 1) \/ (~IsSelfPlay(r) /\ ~HasCell(r, 2))
        /\ Take(r)
    /\ status' = "panic"
    /\ pc' = "exit"
    /\ UNCHANGED <<cfg, dflt, players, history, call, side, sv, nv, trail, swap>>

\* Skip game if a player is fighting themselves somehow
ReadSelfPlay ==
    /\ CanRead
    /\ \E r \in Records :
        /\ ~r.err
        /\ HasCell(r, 1)
        /\ IsSelfPlay(r)
        /\ Take(r)
    /\ UNCHANGED <<cfg, dflt, players, status, history, pc, call, side, sv, nv, trail, swap>>

\* record.get(2).unwrap().parse().unwrap() on a cell that is no number
ReadBadOutcome ==
    /\ CanRead
    /\ \E r \in Records :
        /\ ~r.err
        /\ HasCell(r, 1) /\ ~IsSelfPlay(r) /\ HasCell(r, 2)
        /\ ~ParseF64(r.fields[3]).ok
        /\ Take(r)
    /\ status' = "panic"
    /\ pc' = "exit"
    /\ UNCHANGED <<cfg, dflt, players, history, call, side, sv, nv, trail, swap>>

\* The row names two players and an outcome: look both up and enter glicko2.
ReadGame ==
    /\ CanRead
    /\ \E r \in Records :
        /\ ~r.err
        /\ HasCell(r, 1) /\ ~IsSelfPlay(r) /\ HasCell(r, 2)
        /\ ParseF64(r.fields[3]).ok
        /\ Take(r)
        /\ call' = Glicko2Locals(Lookup(players, r.fields[1], dflt),
                                 Lookup(players, r.fields[2], dflt),
                                 ParseF64(r.fields[3]).val)
    /\ pc' = "nv"
    /\ side' = 1
    /\ nv' = << >>
    /\ UNCHANGED <<cfg, dflt, players, status, history, sv, trail, swap>>

\* The reader is exhausted: Ok(players).
EndOfFile ==
    /\ pc = "read" /\ status = "running" /\ swap.stage = 0
    /\ status' = "ok"
    /\ pc' = "exit"
    /\ UNCHANGED <<cfg, dflt, players, nread, rec, history, call, side, sv, nv, trail, swap>>

\* glicko2 has returned: the rating changes and the two inserts.
WriteBack ==
    /\ pc = "ret" /\ swap.stage = 0
    /\ LET Store(out, n1, n2) ==
            /\ players' =
                 Insert(Insert(players, n1,
                               [rating |-> out[1],
                                latest_change |->
                                    FSub(out[1].rating, call.player_one.rating)]),
                        n2,
                        [rating |-> out[2],
                         latest_change |->
                             FSub(out[2].rating, call.player_two.rating)])
            /\ history' = Append(history,
                                 [n1 |-> n1, n2 |-> n2,
                                  in1 |-> call.player_one, in2 |-> call.player_two,
                                  outcome |-> call.outcome[1],
                                  out1 |-> out[1], out2 |-> out[2]])
       IN  Store(Glicko2Result(call, nv), rec.fields[1], rec.fields[2])
    /\ pc' = "read"
    /\ call' = NoCall
    /\ nv' = << >>
    /\ side' = 1
    /\ UNCHANGED <<cfg, dflt, nread, rec, status, sv, trail, swap>>

\* ------------------------------------------------------------------------
\* new_volatility: one action per loop test and per loop body

Arg == NvArgs(call, side)

\* delta_squared > deviation_squared + v: b is given in closed form.
NvDirect ==
    /\ pc = "nv"
    /\ BracketIsDirect(Arg)
    /\ LET Bracket(a, b) ==
            sv' = [a |-> a, b |-> b, fa |-> FAt(a, Arg, cfg.tau),
                   fb |-> FAt(b, Arg, cfg.tau), k |-> Zero(0)]
       IN  Bracket(StartA(Arg), DirectB(Arg))
    /\ pc' = "secant"
    /\ trail' = {}
    /\ UNCHANGED <<cfg, dflt, fileVars, call, side, nv, swap>>

\* Otherwise: let mut k = 1.0; and the search loop is reached.
NvSearch ==
    /\ pc = "nv"
    /\ ~BracketIsDirect(Arg)
    /\ sv' = [NoSv EXCEPT !.a = StartA(Arg), !.k = One]
    /\ pc' = "search"
    /\ trail' = {}
    /\ UNCHANGED <<cfg, dflt, fileVars, call, side, nv, swap>>

\* while f_value(a - k * tau, ...) < 0.0
SearchTest ==
    /\ pc = "search"
    /\ FLt(FAt(SearchPoint(sv.a, sv.k, cfg.tau), Arg, cfg.tau), Zero(0))
    /\ pc' = "search_body"
    /\ trail' = trail \cup {sv}
    /\ UNCHANGED <<cfg, dflt, fileVars, call, side, sv, nv, swap>>

\* k += 1.0;
SearchIncrement ==
    /\ pc = "search_body"
    /\ sv' = [sv EXCEPT !.k = FAdd(sv.k, One)]
    /\ pc' = "search"
    /\ UNCHANGED <<cfg, dflt, fileVars, call, side, nv, trail, swap>>

\* The search loop is left: b = a - k * tau, then fa and fb.
SearchExit ==
    /\ pc = "search"
    /\ ~FLt(FAt(SearchPoint(sv.a, sv.k, cfg.tau), Arg, cfg.tau), Zero(0))
    /\ LET Bracket(b) ==
            sv' = [sv EXCEPT !.b = b, !.fa = FAt(sv.a, Arg, cfg.tau),
                             !.fb = FAt(b, Arg, cfg.tau)]
       IN  Bracket(SearchPoint(sv.a, sv.k, cfg.tau))
    /\ pc' = "secant"
    /\ trail' = {}
    /\ UNCHANGED <<cfg, dflt, fileVars, call, side, nv, swap>>

\* while (b - a).abs() > convergence_tolerance
SecantTest ==
    /\ pc = "secant"
    /\ NotConverged(sv, cfg.convergence_tolerance)
    /\ pc' = "secant_body"
    /\ trail' = trail \cup {sv}
    /\ UNCHANGED <<cfg, dflt, fileVars, call, side, sv, nv, swap>>

\* The body of the refinement loop.
SecantStep ==
    /\ pc = "secant_body"
    /\ sv' = SecantBody(sv, Arg, cfg.tau)
    /\ pc' = "secant"
    /\ UNCHANGED <<cfg, dflt, fileVars, call, side, nv, trail, swap>>

\* The refinement loop is left: (a / 2.0).exp() is returned.
SecantExit ==
    /\ pc = "secant"
    /\ ~NotConverged(sv, cfg.convergence_tolerance)
    /\ nv' = Append(nv, FExp(FDiv(sv.a, Two)))
    /\ sv' = NoSv
    /\ pc' = IF side = 1 THEN "nv" ELSE "ret"
    /\ side' = 2
    /\ trail' = {}
    /\ UNCHANGED <<cfg, dflt, fileVars, call, swap>>

Next ==
    \/ ReadBadCsv
    \/ ReadMissingField
    \/ ReadSelfPlay
    \/ ReadBadOutcome
    \/ ReadGame
    \/ EndOfFile
    \/ WriteBack
    \/ NvDirect
    \/ NvSearch
    \/ SearchTest
    \/ SearchIncrement
    \/ SearchExit
    \/ SecantTest
    \/ SecantStep
    \/ SecantExit

Spec == Init /\ [][Next]_vars

\* ------------------------------------------------------------------------
\* glicko2 called twice, the second time with the sides exchanged and the
\* outcome seen from the other side.

SwapRatings1 ==
    {[rating |-> FromInt(r), deviation |-> FromInt(350), volatility |-> StockVolatility] :
        r \in {1500, 1000}}

SwapRatings2 ==
    {[rating |-> FromInt(r), deviation |-> FromInt(350), volatility |-> StockVolatility] :
        r \in {1500, 2000}}

SwapOutcomes == {One, Half, Zero(0), FromRatio(1, 5)}

SwapInit ==
    /\ cfg \in Configs
    /\ dflt = DefaultRating(StockVolatility)
    /\ players = << >>
    /\ nread = 0
    /\ rec = NoRecord
    /\ status = "running"
    /\ history = << >>
    /\ \E A \in SwapRatings1, B \in SwapRatings2, o \in SwapOutcomes :
        /\ swap = [stage |-> 1, A |-> A, B |-> B, o |-> o]
        /\ call = Glicko2Locals(A, B, o)
    /\ pc = "nv"
    /\ side = 1
    /\ sv = NoSv
    /\ nv = << >>
    /\ trail = {}

\* glicko2(A, B, o) has returned: call glicko2(B, A, 1 - o).
SwapSecond ==
    /\ pc = "ret" /\ swap.stage = 1
    /\ swap' = [stage |-> 2, A |-> swap.A, B |-> swap.B, o |-> swap.o,
                first |-> Glicko2Result(call, nv)]
    /\ call' = Glicko2Locals(swap.B, swap.A, FSub(One, swap.o))
    /\ pc' = "nv"
    /\ side' = 1
    /\ nv' = << >>
    /\ UNCHANGED <<cfg, dflt, fileVars, sv, trail>>

\* glicko2(B, A, 1 - o) has returned.
SwapDone ==
    /\ pc = "ret" /\ swap.stage = 2
    /\ swap' = [stage |-> 3, A |-> swap.A, B |-> swap.B, o |-> swap.o,
                first |-> swap.first, second |-> Glicko2Result(call, nv)]
    /\ pc' = "exit"
    /\ UNCHANGED <<cfg, dflt, fileVars, call, side, sv, nv, trail>>

SwapNext ==
    \/ NvDirect
    \/ NvSearch
    \/ SearchTest
    \/ SearchIncrement
    \/ SearchExit
    \/ SecantTest
    \/ SecantStep
    \/ SecantExit
    \/ SwapSecond
    \/ SwapDone

SwapSpec == SwapInit /\ [][SwapNext]_vars

\* ------------------------------------------------------------------------
\* Properties

InSearch == pc \in {"search", "search_body"}

InSecant == pc \in {"secant", "secant_body"}

InGlicko2 == pc \in {"nv", "search", "search_body", "secant", "secant_body", "ret"}

InUnitInterval(x) == FLe(Zero(0), x) /\ FLe(x, One)

Positive(x) == FGt(x, Zero(0))

SameStrictSign(x, y) ==
    \/ Positive(x) /\ Positive(y)
    \/ FLt(x, Zero(0)) /\ FLt(y, Zero(0))

\* The run was started with tau > 0, a tolerance > 0 and a default state of
\* deviation > 0 and volatility > 0, and every game so far had its outcome
\* in [0, 1].
ValidRun ==
    /\ Positive(cfg.tau)
    /\ Positive(cfg.convergence_tolerance)
    /\ Positive(dflt.deviation)
    /\ Positive(dflt.volatility)
    /\ \A i \in 1..Len(history) : InUnitInterval(history[i].outcome)

\* The run is valid and so is the outcome of the game glicko2 is rating.
ValidCall ==
    /\ ValidRun
    /\ swap.stage = 0
    /\ InGlicko2
    /\ InUnitInterval(call.outcome[1])

\* C1: with tau > 0 and every other input valid, a call of new_volatility
\* leaves the downward bracket search after a bounded number of passes: the
\* search never comes back to a value of k at which its test has already
\* been evaluated in this call.  (The test depends on k and the call's
\* arguments only, so a search that comes back to a k repeats from there
\* for ever.)
SearchEnds == (ValidCall /\ pc = "search") => sv \notin trail

\* C2: with convergence_tolerance > 0 and every other input valid, a call of
\* new_volatility leaves the refinement loop after a bounded number of
\* passes: the loop never comes back to values of a, b, fa, fb at which its
\* test has already been evaluated in this call.  (Test and body depend on
\* these four and the call's arguments only, so a loop that comes back to
\* them repeats from there for ever.)
SecantEnds == (ValidCall /\ pc = "secant") => sv \notin trail

\* C3: a record that cannot be processed (an unreadable record, a missing
\* field, an unparsable outcome) never ends the run: rate_file neither
\* returns an error in place of the table nor aborts.
RecordFailureIsLocal == status \notin {"err", "panic"}

\* C4: once glicko2(A, B, o) and glicko2(B, A, 1 - o) have both returned,
\* the second call's results are the first call's results with the sides
\* exchanged.
SwapEquivalence ==
    swap.stage = 3 =>
        /\ swap.second[1] = swap.first[2]
        /\ swap.second[2] = swap.first[1]

\* C4, for the outcomes o that 1 - (1 - o) gives back exactly (1, 0.5 and 0
\* among them): once glicko2(A, B, o) and glicko2(B, A, 1 - o) have both
\* returned, the second call's results are the first call's results with
\* the sides exchanged.
SwapEquivalenceOnRoundTrip ==
    (swap.stage = 3 /\ FSub(One, FSub(One, swap.o)) = swap.o) =>
        /\ swap.second[1] = swap.first[2]
        /\ swap.second[2] = swap.first[1]

SwapEquivalenceReached ==
    /\ swap.stage = 3
    /\ swap.o = Half
    /\ swap.A # swap.B
    /\ swap.first[1] # swap.A
    /\ swap.second[1] = swap.first[2]
    /\ swap.second[2] = swap.first[1]

\* The games before game i that name the competitor.
EarlierGames(name, i) ==
    {j \in 1..(i - 1) : history[j].n1 = name \/ history[j].n2 = name}

Latest(S) == CHOOSE j \in S : \A k \in S : k <= j

\* The state the latest game before game i wrote back for the competitor,
\* the default if there is none.
StateBefore(name, i) ==
    IF EarlierGames(name, i) = {} THEN dflt
    ELSE IF history[Latest(EarlierGames(name, i))].n1 = name
         THEN history[Latest(EarlierGames(name, i))].out1
         ELSE history[Latest(EarlierGames(name, i))].out2

SelfPlayIsSkipped ==
    /\ []((swap.stage = 0 /\ InGlicko2) => rec.fields[1] # rec.fields[2])
    /\ [][ (nread' = nread + 1 /\ ~rec'.err /\ Len(rec'.fields) >= 2
            /\ rec'.fields[1] = rec'.fields[2]) =>
              (players' = players /\ history' = history /\ call' = call
               /\ pc' = "read" /\ status' = "running") ]_vars

SelfPlayAfterGame ==
    /\ nread = 2
    /\ rec = Row(<<"a", "a", "1">>)
    /\ pc = "read"
    /\ Len(history) = 1
    /\ DOMAIN players = {"a", "b"}

\* C8: every outcome that rate_file hands to glicko2 lies in [0, 1], and so
\* does the outcome glicko2 derives from it for the second player.
OutcomeInUnitInterval ==
    (swap.stage = 0 /\ InGlicko2) =>
        /\ InUnitInterval(call.outcome[1])
        /\ InUnitInterval(call.outcome[2])

\* C9: in a run started with valid parameters whose games all had outcomes
\* in [0, 1], every state stored in the table has deviation > 0 and
\* volatility > 0.
StoredStatesPositive ==
    ValidRun =>
        \A n \in DOMAIN players :
            /\ Positive(players[n].rating.deviation)
            /\ Positive(players[n].rating.volatility)

=============================================================================
